---------------------------- MODULE Spec2Model ----------------------------
(***************************************************************************)
(* A model of the CHIP-8 interpreter of src/src/chip8.rs (the machine and  *)
(* its instruction dispatch) and src/src/opcode.rs (the decoder).          *)
(*                                                                         *)
(* The machine is the struct Chip8; its entry points are load_program,     *)
(* tick and get_pixel.  The arithmetic of the source is written on u8, u16 *)
(* and usize values.  An overflowing u8 operation panics in a build with   *)
(* overflow checks (the default dev/test profile) and wraps modulo 256 in  *)
(* a build without them (the release profile); the variable                *)
(* overflow_checks records which build runs, and both are explored.        *)
(***************************************************************************)
EXTENDS Integers, Sequences, FiniteSets, TLC

VARIABLES
    memory,           \* Chip8.memory : [u8; 4096], as a function on 0..4095
    reg,              \* Chip8.reg    : [u8; 16],   as a function on 0..15
    pc,               \* Chip8.pc     : usize
    stack,            \* Chip8.stack  : Vec<usize>, top of stack is the last element
    i_addr,           \* Chip8.i_addr : usize
    delay_timer,      \* Chip8.delay_timer : u8
    sound_timer,      \* Chip8.sound_timer : u8
    screen,           \* Chip8.screen : [u8; 64 * 32], as a function on 0..2047
    result,           \* how the last call ended: "Ok", "Err" or the message of a panic
    overflow_checks,  \* TRUE: the build panics on integer overflow; FALSE: it wraps
    hist,             \* history: for each call so far, the word it fetched and the state before it
    ticks,            \* number of calls of tick so far
    loaded            \* whether main has called load_program

vars == <<memory, reg, pc, stack, i_addr, delay_timer, sound_timer, screen,
          result, overflow_checks, hist, ticks, loaded>>

(***************************************************************************)
(* Program constants.                                                      *)
(***************************************************************************)
SCREEN_WIDTH == 64
SCREEN_HEIGHT == 32
BASE_FONT_ADDRESS == 0
MEMORY_SIZE == 4096
PROGRAM_START == 512
NUM_REGISTERS == 16
VF == 15
V0 == 0

FONT ==
    << 240, 144, 144, 144, 240,
        32,  96,  32,  32, 112,
       240,  16, 240, 128, 240,
       240,  16, 240,  16, 240,
       144, 144, 240,  16,  16,
       240, 128, 240,  16, 240,
       240, 128, 240, 144, 240,
       240,  16,  32,  64,  64,
       240, 144, 240, 144, 240,
       240, 144, 240,  16, 240,
       240, 144, 240, 144, 144,
       224, 144, 224, 144, 224,
       240, 128, 128, 128, 240,
       224, 144, 144, 144, 224,
       240, 128, 240, 128, 240,
       240, 128, 240, 128, 128 >>

(***************************************************************************)
(* Bit operations on unsigned integers, bit by bit from the lowest.        *)
(***************************************************************************)
RECURSIVE BitOr(_, _)
BitOr(a, b) ==
    IF a = 0 THEN b
    ELSE IF b = 0 THEN a
    ELSE (IF a % 2 = 1 \/ b % 2 = 1 THEN 1 ELSE 0) + 2 * BitOr(a \div 2, b \div 2)

RECURSIVE BitAnd(_, _)
BitAnd(a, b) ==
    IF a = 0 \/ b = 0 THEN 0
    ELSE (IF a % 2 = 1 /\ b % 2 = 1 THEN 1 ELSE 0) + 2 * BitAnd(a \div 2, b \div 2)

RECURSIVE BitXor(_, _)
BitXor(a, b) ==
    IF a = 0 THEN b
    ELSE IF b = 0 THEN a
    ELSE (IF a % 2 # b % 2 THEN 1 ELSE 0) + 2 * BitXor(a \div 2, b \div 2)

(***************************************************************************)
(* opcode.rs: the bit-fields of an instruction word.                       *)
(***************************************************************************)
inst_op(w)  == w \div 4096
inst_x(w)   == (w \div 256) % 16
inst_y(w)   == (w \div 16) % 16
inst_kk(w)  == w % 256
inst_nnn(w) == w % 4096
inst_n(w)   == w % 16

(***************************************************************************)
(* opcode.rs: a decoded instruction.  Every variant is a record of the     *)
(* same shape; the operands a variant does not carry are 0.  The tag       *)
(* "panic" stands for the decoder's panic!("Instruction not recognized").  *)
(***************************************************************************)
Op(tag, vx, vy, kk, nnn, n) ==
    [tag |-> tag, vx |-> vx, vy |-> vy, kk |-> kk, nnn |-> nnn, n |-> n]

Op0(tag)          == Op(tag, 0, 0, 0, 0, 0)
OpNNN(tag, w)     == Op(tag, 0, 0, 0, inst_nnn(w), 0)
OpXKK(tag, w)     == Op(tag, inst_x(w), 0, inst_kk(w), 0, 0)
OpXY(tag, w)      == Op(tag, inst_x(w), inst_y(w), 0, 0, 0)
OpX(tag, w)       == Op(tag, inst_x(w), 0, 0, 0, 0)
OpXYN(tag, w)     == Op(tag, inst_x(w), inst_y(w), 0, 0, inst_n(w))
NotRecognized     == Op0("panic")

Decode0(w) ==
    CASE w % 256 = 224 -> Op0("ClearDisplay")
      [] w % 256 = 238 -> Op0("Return")
      [] OTHER         -> Op0("Noop")

Decode8(w) ==
    CASE w % 16 = 0  -> OpXY("LoadRegister", w)
      [] w % 16 = 1  -> OpXY("Or", w)
      [] w % 16 = 2  -> OpXY("And", w)
      [] w % 16 = 3  -> OpXY("Xor", w)
      [] w % 16 = 4  -> OpXY("AddRegister", w)
      [] w % 16 = 5  -> OpXY("SubtractRightRegister", w)
      [] w % 16 = 6  -> OpX("ShiftRight", w)
      [] w % 16 = 7  -> OpXY("SubtractLeftRegister", w)
      [] w % 16 = 14 -> OpX("ShiftLeft", w)
      [] OTHER       -> NotRecognized

DecodeE(w) ==
    CASE w % 256 = 158 -> OpX("SkipIfPressed", w)
      [] w % 256 = 161 -> OpX("SkipIfNotPressed", w)
      [] OTHER         -> NotRecognized

DecodeF(w) ==
    CASE w % 256 = 7   -> OpX("LoadDelayTimer", w)
      [] w % 256 = 10  -> OpX("WaitForPress", w)
      [] w % 256 = 21  -> OpX("SetDelayTimer", w)
      [] w % 256 = 24  -> OpX("SetSoundTimer", w)
      [] w % 256 = 30  -> OpX("AddAddress", w)
      [] w % 256 = 41  -> OpX("LoadAddressOfSprite", w)
      [] w % 256 = 51  -> OpX("LoadDigits", w)
      [] w % 256 = 85  -> OpX("StoreRegisters", w)
      [] w % 256 = 101 -> OpX("LoadRegisters", w)
      [] OTHER         -> NotRecognized

\* impl From<u16> for Opcode
Opcode_from(w) ==
    CASE inst_op(w) = 0  -> Decode0(w)
      [] inst_op(w) = 1  -> OpNNN("Jump", w)
      [] inst_op(w) = 2  -> OpNNN("CallSubroutine", w)
      [] inst_op(w) = 3  -> OpXKK("SkipIfConstantEqual", w)
      [] inst_op(w) = 4  -> OpXKK("SkipIfConstantNotEqual", w)
      [] inst_op(w) = 5  -> OpXY("SkipIfRegistersEqual", w)
      [] inst_op(w) = 6  -> OpXKK("LoadConstant", w)
      [] inst_op(w) = 7  -> OpXKK("AddConstant", w)
      [] inst_op(w) = 8  -> Decode8(w)
      [] inst_op(w) = 9  -> OpXY("SkipIfRegistersNotEqual", w)
      [] inst_op(w) = 10 -> OpNNN("LoadAddress", w)
      [] inst_op(w) = 11 -> OpNNN("JumpPlus", w)
      [] inst_op(w) = 12 -> OpXKK("Random", w)
      [] inst_op(w) = 13 -> OpXYN("DisplaySprite", w)
      [] inst_op(w) = 14 -> DecodeE(w)
      [] inst_op(w) = 15 -> DecodeF(w)
      [] OTHER           -> NotRecognized


(***************************************************************************)
(* chip8.rs: the machine as a value.  The operators below take the machine *)
(* c (a record of the fields of Chip8 and the result of the call) and give *)
(* the machine after the code has run.  A panic ends the process; the      *)
(* record then holds the fields as they were when the panic was raised.    *)
(***************************************************************************)
ADD_OVERFLOW == "attempt to add with overflow"
SUB_OVERFLOW == "attempt to subtract with overflow"
MUL_OVERFLOW == "attempt to multiply with overflow"
INDEX_OOB    == "index out of bounds"
SLICE_OOB    == "range end index out of range for slice"
BAD_INSTRUCTION == "Instruction not recognized"
EMPTY_STACK  == "Tried to return from empty stack"

Panics == {ADD_OVERFLOW, SUB_OVERFLOW, MUL_OVERFLOW, INDEX_OOB, SLICE_OOB,
           BAD_INSTRUCTION}

Panic(c, msg) == [c EXCEPT !.result = msg]

\* impl Default for Chip8
FontMemory ==
    [a \in 0 .. MEMORY_SIZE - 1 |->
        IF a >= BASE_FONT_ADDRESS /\ a < BASE_FONT_ADDRESS + 80
        THEN FONT[a - BASE_FONT_ADDRESS + 1] ELSE 0]

BlankScreen == [p \in 0 .. SCREEN_WIDTH * SCREEN_HEIGHT - 1 |-> 0]

Chip8_default ==
    [memory      |-> FontMemory,
     reg         |-> [r \in 0 .. NUM_REGISTERS - 1 |-> 0],
     pc          |-> PROGRAM_START,
     stack       |-> << >>,
     i_addr      |-> 0,
     delay_timer |-> 0,
     sound_timer |-> 0,
     screen      |-> BlankScreen,
     result      |-> "Ok"]

\* dest.copy_from_slice(data), dest starting at 0x200: byte k of data (from 1)
\* goes to address 0x200 + k - 1
RECURSIVE CopyFromSlice(_, _, _)
CopyFromSlice(mem, data, k) ==
    IF k > Len(data) THEN mem
    ELSE CopyFromSlice([mem EXCEPT ![PROGRAM_START + k - 1] = data[k]], data, k + 1)

\* Chip8::load_program: the slice &mut memory[0x200..0x200 + len] panics when
\* its end is beyond the array; copy_from_slice then copies data into it.
load_program(c, data) ==
    IF PROGRAM_START + Len(data) > MEMORY_SIZE
    THEN Panic(c, SLICE_OOB)
    ELSE [c EXCEPT !.memory = CopyFromSlice(c.memory, data, 1)]

\* Chip8::get_pixel: self.screen[y * SCREEN_WIDTH + x], an indexed read that
\* panics when the index is beyond the array; the outcome is the result of
\* the call and the byte it returned (-1 when it panicked)
get_pixel(c, px, py) ==
    IF py * SCREEN_WIDTH + px >= SCREEN_WIDTH * SCREEN_HEIGHT
    THEN [result |-> INDEX_OOB, value |-> -1]
    ELSE [result |-> "Ok", value |-> c.screen[py * SCREEN_WIDTH + px]]

(***************************************************************************)
(* chip8.rs, execute_opcode: one operator for each arm of the match.       *)
(***************************************************************************)
ClearDisplay(c) == [c EXCEPT !.screen = [p \in DOMAIN c.screen |-> 0]]

Noop(c) == c

\* Return with the empty stack tolerated instead of reported
Return_tolerant(c) ==
    IF Len(c.stack) = 0
    THEN c
    ELSE [c EXCEPT !.pc = c.stack[Len(c.stack)],
                   !.stack = SubSeq(c.stack, 1, Len(c.stack) - 1)]

\* stack.pop() gives None on an empty Vec; ok_or_else(..)? returns the error
Return(c) ==
    IF Len(c.stack) = 0
    THEN [c EXCEPT !.result = "Err"]
    ELSE [c EXCEPT !.pc = c.stack[Len(c.stack)],
                   !.stack = SubSeq(c.stack, 1, Len(c.stack) - 1)]

Jump(c, nnn) == [c EXCEPT !.pc = nnn]

\* a call that keeps the return addresses as a queue: the new one goes first
CallSubroutine_queue(c, nnn) ==
    [c EXCEPT !.stack = <<c.pc>> \o c.stack, !.pc = nnn]

\* self.stack.push(self.pc); self.pc = nnn: pc is already past the call
CallSubroutine(c, nnn) ==
    [c EXCEPT !.stack = Append(c.stack, c.pc), !.pc = nnn]

SkipIfConstantEqual(c, vx, kk) ==
    IF c.reg[vx] = kk THEN [c EXCEPT !.pc = c.pc + 2] ELSE c

SkipIfConstantNotEqual(c, vx, kk) ==
    IF c.reg[vx] # kk THEN [c EXCEPT !.pc = c.pc + 2] ELSE c

SkipIfRegistersEqual(c, vx, vy) ==
    IF c.reg[vx] = c.reg[vy] THEN [c EXCEPT !.pc = c.pc + 2] ELSE c

LoadConstant(c, vx, kk) == [c EXCEPT !.reg[vx] = kk]

\* AddConstant that reports the carry in VF, as AddRegister does
AddConstant_flagging(c, vx, kk) ==
    LET val == c.reg[vx] + kk
        c1  == IF val > 255 THEN [c EXCEPT !.reg[VF] = 1] ELSE c
    IN  [c1 EXCEPT !.reg[vx] = val % 256]

\* (u16::from(r) + u16::from(kk) % 256) as u8: % binds tighter than +, the
\* sum is a u16 (at most 510) and the cast keeps its low byte
AddConstant(c, vx, kk) ==
    LET r == c.reg[vx]
    IN  [c EXCEPT !.reg[vx] = ((r + (kk % 256)) % 65536) % 256]

LoadRegister(c, vx, vy) == [c EXCEPT !.reg[vx] = c.reg[vy]]

Or(c, vx, vy)  == [c EXCEPT !.reg[vx] = BitOr(c.reg[vx], c.reg[vy])]

And(c, vx, vy) == [c EXCEPT !.reg[vx] = BitAnd(c.reg[vx], c.reg[vy])]

Xor(c, vx, vy) == [c EXCEPT !.reg[vx] = BitXor(c.reg[vx], c.reg[vy])]

\* VF is written only when the sum exceeds 255; V[x] is written after it
AddRegister(c, vx, vy) ==
    LET val == c.reg[vx] + c.reg[vy]
        c1  == IF val > 255 THEN [c EXCEPT !.reg[VF] = 1] ELSE c
    IN  [c1 EXCEPT !.reg[vx] = BitAnd(val, 255)]

\* vx_val - vy_val is a u8 subtraction
SubtractRightRegister(c, vx, vy, chk) ==
    LET vx_val == c.reg[vx]
        vy_val == c.reg[vy]
        c1     == IF vx_val > vy_val THEN [c EXCEPT !.reg[VF] = 1] ELSE c
    IN  IF vx_val - vy_val < 0 /\ chk
        THEN Panic(c1, SUB_OVERFLOW)
        ELSE [c1 EXCEPT !.reg[vx] = (vx_val - vy_val) % 256]

ShiftRight(c, vx) ==
    LET vx_val == c.reg[vx]
        c1     == IF BitAnd(vx_val, 1) = 1 THEN [c EXCEPT !.reg[VF] = 1] ELSE c
    IN  [c1 EXCEPT !.reg[vx] = vx_val \div 2]

\* vy_val - vx_val is a u8 subtraction
SubtractLeftRegister(c, vx, vy, chk) ==
    LET vx_val == c.reg[vx]
        vy_val == c.reg[vy]
        c1     == IF vy_val > vx_val THEN [c EXCEPT !.reg[VF] = 1] ELSE c
    IN  IF vy_val - vx_val < 0 /\ chk
        THEN Panic(c1, SUB_OVERFLOW)
        ELSE [c1 EXCEPT !.reg[vx] = (vy_val - vx_val) % 256]

\* a u8 shift by 1 drops the high bit and never panics
ShiftLeft(c, vx) ==
    LET vx_val == c.reg[vx]
        c1     == IF BitAnd(vx_val, 128) = 128 THEN [c EXCEPT !.reg[VF] = 1] ELSE c
    IN  [c1 EXCEPT !.reg[vx] = (vx_val * 2) % 256]

\* a 9xy0 that skips when the registers are equal
SkipIfRegistersNotEqual_inverted(c, vx, vy) ==
    IF c.reg[vx] = c.reg[vy] THEN [c EXCEPT !.pc = c.pc + 2] ELSE c

SkipIfRegistersNotEqual(c, vx, vy) ==
    IF c.reg[vx] # c.reg[vy] THEN [c EXCEPT !.pc = c.pc + 2] ELSE c

LoadAddress(c, nnn) == [c EXCEPT !.i_addr = nnn]

JumpPlus(c, nnn) == [c EXCEPT !.pc = c.reg[V0] + nnn]

\* rnd is the byte rand::random::<u8>() returns
Random(c, vx, kk, rnd) == [c EXCEPT !.reg[vx] = BitAnd(rnd, kk)]


(***************************************************************************)
(* chip8.rs, DisplaySprite.  The loops run row by row (y_offset in 0..n)   *)
(* and, in a row, column by column (x_offset in 0..8).  x, y, x_offset and *)
(* y_offset are u8: x + x_offset and y + y_offset are u8 additions.  d is  *)
(* the loop's state: the screen, the collision flag and the result.        *)
(***************************************************************************)
\* a blit that adds the sprite bit to the pixel instead of XORing it
BlitPixel_sum(old, sprite_pixel) == old + sprite_pixel

\* a blit that sets pixels and never clears them
BlitPixel_or(old, sprite_pixel) == BitOr(old, sprite_pixel)

\* self.screen[dest_index] ^= sprite_pixel
BlitPixel(old, sprite_pixel) == BitXor(old, sprite_pixel)

\* a destination column that stops at the right edge instead of wrapping
DestX_clamped(px, x_offset) ==
    IF px + x_offset > SCREEN_WIDTH - 1 THEN SCREEN_WIDTH - 1 ELSE px + x_offset

\* (x + x_offset) % (SCREEN_WIDTH as u8), the sum wrapped to a byte
DestX(px, x_offset) == ((px + x_offset) % 256) % SCREEN_WIDTH

\* (y + y_offset) % (SCREEN_HEIGHT as u8), the sum wrapped to a byte
DestY(py, y_offset) == ((py + y_offset) % 256) % SCREEN_HEIGHT

RECURSIVE DrawColumns(_, _, _, _, _, _, _)
DrawColumns(d, px, py, y_offset, sprite_line, x_offset, chk) ==
    IF x_offset >= 8 THEN d
    ELSE IF chk /\ px + x_offset > 255 THEN [d EXCEPT !.result = ADD_OVERFLOW]
    ELSE IF chk /\ py + y_offset > 255 THEN [d EXCEPT !.result = ADD_OVERFLOW]
    ELSE
      LET dest_x       == DestX(px, x_offset)
          dest_y       == DestY(py, y_offset)
          dest_index   == dest_y * SCREEN_WIDTH + dest_x
          bit          == 7 - x_offset
          sprite_pixel == BitAnd(sprite_line \div (2 ^ bit), 1)
          d1 == [screen    |-> [d.screen EXCEPT ![dest_index] =
                                    BlitPixel(d.screen[dest_index], sprite_pixel)],
                 collision |-> d.collision
                               \/ (sprite_pixel = 1 /\ d.screen[dest_index] = 1),
                 result    |-> d.result]
      IN  DrawColumns(d1, px, py, y_offset, sprite_line, x_offset + 1, chk)

RECURSIVE DrawRows(_, _, _, _, _, _, _, _)
DrawRows(d, mem, ia, px, py, n, y_offset, chk) ==
    IF y_offset >= n THEN d
    ELSE IF ia + y_offset >= MEMORY_SIZE THEN [d EXCEPT !.result = INDEX_OOB]
    ELSE
      LET d1 == DrawColumns(d, px, py, y_offset, mem[ia + y_offset], 0, chk)
      IN  IF d1.result # "Ok" THEN d1
          ELSE DrawRows(d1, mem, ia, px, py, n, y_offset + 1, chk)

\* VF is written only when a collision happened
DisplaySprite(c, vx, vy, n, chk) ==
    LET d == DrawRows([screen |-> c.screen, collision |-> FALSE, result |-> "Ok"],
                      c.memory, c.i_addr, c.reg[vx], c.reg[vy], n, 0, chk)
        c1 == [c EXCEPT !.screen = d.screen]
    IN  IF d.result # "Ok" THEN Panic(c1, d.result)
        ELSE IF d.collision THEN [c1 EXCEPT !.reg[VF] = 1]
        ELSE c1

\* TODO(jolson): Implement input
SkipIfPressed(c, vx) == c

\* TODO(jolson): Implement input
SkipIfNotPressed(c, vx) == c

LoadDelayTimer(c, vx) == [c EXCEPT !.reg[vx] = c.delay_timer]

\* TODO(jolson): Implement input
WaitForPress(c, vx) == c

SetDelayTimer(c, vx) == [c EXCEPT !.delay_timer = c.reg[vx]]

SetSoundTimer(c, vx) == [c EXCEPT !.sound_timer = c.reg[vx]]

\* a usize addition
AddAddress(c, vx) == [c EXCEPT !.i_addr = c.i_addr + c.reg[vx]]

\* self.reg[vx] * 5 is a u8 multiplication, cast to usize afterwards
LoadAddressOfSprite(c, vx, chk) ==
    IF chk /\ c.reg[vx] * 5 > 255
    THEN Panic(c, MUL_OVERFLOW)
    ELSE [c EXCEPT !.i_addr = BASE_FONT_ADDRESS + ((c.reg[vx] * 5) % 256)]

\* three indexed writes, each bounds-checked, in this order
LoadDigits(c, vx) ==
    LET val == c.reg[vx]
        ia  == c.i_addr
    IN  IF ia >= MEMORY_SIZE THEN Panic(c, INDEX_OOB)
        ELSE IF ia + 1 >= MEMORY_SIZE
        THEN Panic([c EXCEPT !.memory[ia] = val \div 100], INDEX_OOB)
        ELSE IF ia + 2 >= MEMORY_SIZE
        THEN Panic([c EXCEPT !.memory[ia] = val \div 100,
                             !.memory[ia + 1] = (val \div 10) % 10], INDEX_OOB)
        ELSE [c EXCEPT !.memory[ia] = val \div 100,
                       !.memory[ia + 1] = (val \div 10) % 10,
                       !.memory[ia + 2] = val % 10]

\* for i in 0..(vx as usize) { self.memory[self.i_addr + i] = self.reg[i]; }
RECURSIVE StoreLoop(_, _, _)
StoreLoop(c, vx, i) ==
    IF i >= vx THEN c
    ELSE IF c.i_addr + i >= MEMORY_SIZE THEN Panic(c, INDEX_OOB)
    ELSE StoreLoop([c EXCEPT !.memory[c.i_addr + i] = c.reg[i]], vx, i + 1)

StoreRegisters(c, vx) == StoreLoop(c, vx, 0)

\* a load that reads from one address further than the store wrote to
RECURSIVE LoadLoop_shifted(_, _, _)
LoadLoop_shifted(c, vx, i) ==
    IF i >= vx THEN c
    ELSE IF c.i_addr + i + 1 >= MEMORY_SIZE THEN Panic(c, INDEX_OOB)
    ELSE LoadLoop_shifted([c EXCEPT !.reg[i] = c.memory[c.i_addr + i + 1]], vx, i + 1)

\* for i in 0..(vx as usize) { self.reg[i] = self.memory[self.i_addr + i]; }
RECURSIVE LoadLoop(_, _, _)
LoadLoop(c, vx, i) ==
    IF i >= vx THEN c
    ELSE IF c.i_addr + i >= MEMORY_SIZE THEN Panic(c, INDEX_OOB)
    ELSE LoadLoop([c EXCEPT !.reg[i] = c.memory[c.i_addr + i]], vx, i + 1)

LoadRegisters(c, vx) == LoadLoop(c, vx, 0)

\* Chip8::execute_opcode: the match over the decoded instruction, then Ok(())
execute_opcode(c, op, chk, rnd) ==
    CASE op.tag = "ClearDisplay"            -> ClearDisplay(c)
      [] op.tag = "Noop"                    -> Noop(c)
      [] op.tag = "Return"                  -> Return(c)
      [] op.tag = "Jump"                    -> Jump(c, op.nnn)
      [] op.tag = "CallSubroutine"          -> CallSubroutine(c, op.nnn)
      [] op.tag = "SkipIfConstantEqual"     -> SkipIfConstantEqual(c, op.vx, op.kk)
      [] op.tag = "SkipIfConstantNotEqual"  -> SkipIfConstantNotEqual(c, op.vx, op.kk)
      [] op.tag = "SkipIfRegistersEqual"    -> SkipIfRegistersEqual(c, op.vx, op.vy)
      [] op.tag = "LoadConstant"            -> LoadConstant(c, op.vx, op.kk)
      [] op.tag = "AddConstant"             -> AddConstant(c, op.vx, op.kk)
      [] op.tag = "LoadRegister"            -> LoadRegister(c, op.vx, op.vy)
      [] op.tag = "Or"                      -> Or(c, op.vx, op.vy)
      [] op.tag = "And"                     -> And(c, op.vx, op.vy)
      [] op.tag = "Xor"                     -> Xor(c, op.vx, op.vy)
      [] op.tag = "AddRegister"             -> AddRegister(c, op.vx, op.vy)
      [] op.tag = "SubtractRightRegister"   -> SubtractRightRegister(c, op.vx, op.vy, chk)
      [] op.tag = "ShiftRight"              -> ShiftRight(c, op.vx)
      [] op.tag = "SubtractLeftRegister"    -> SubtractLeftRegister(c, op.vx, op.vy, chk)
      [] op.tag = "ShiftLeft"               -> ShiftLeft(c, op.vx)
      [] op.tag = "SkipIfRegistersNotEqual" -> SkipIfRegistersNotEqual(c, op.vx, op.vy)
      [] op.tag = "LoadAddress"             -> LoadAddress(c, op.nnn)
      [] op.tag = "JumpPlus"                -> JumpPlus(c, op.nnn)
      [] op.tag = "Random"                  -> Random(c, op.vx, op.kk, rnd)
      [] op.tag = "DisplaySprite"           -> DisplaySprite(c, op.vx, op.vy, op.n, chk)
      [] op.tag = "SkipIfPressed"           -> SkipIfPressed(c, op.vx)
      [] op.tag = "SkipIfNotPressed"        -> SkipIfNotPressed(c, op.vx)
      [] op.tag = "LoadDelayTimer"          -> LoadDelayTimer(c, op.vx)
      [] op.tag = "WaitForPress"            -> WaitForPress(c, op.vx)
      [] op.tag = "SetDelayTimer"           -> SetDelayTimer(c, op.vx)
      [] op.tag = "SetSoundTimer"           -> SetSoundTimer(c, op.vx)
      [] op.tag = "AddAddress"              -> AddAddress(c, op.vx)
      [] op.tag = "LoadAddressOfSprite"     -> LoadAddressOfSprite(c, op.vx, chk)
      [] op.tag = "LoadDigits"              -> LoadDigits(c, op.vx)
      [] op.tag = "StoreRegisters"          -> StoreRegisters(c, op.vx)
      [] op.tag = "LoadRegisters"           -> LoadRegisters(c, op.vx)

(***************************************************************************)
(* chip8.rs, Chip8::tick: both timers, then fetch, decode, the advance of  *)
(* pc and the execution of the instruction.                                *)
(***************************************************************************)
Max(a, b) == IF a >= b THEN a ELSE b

\* max(timer - 1, 0) on u8: the subtraction wraps 0 to 255 without overflow
\* checks, and max with 0 changes no u8
TimerStep(t) == Max((t - 1) % 256, 0)

\* self.delay_timer = ..; self.sound_timer = ..; a u8 subtraction from 0 panics
\* in a build with overflow checks
TickTimers(c, chk) ==
    IF chk /\ c.delay_timer - 1 < 0 THEN Panic(c, SUB_OVERFLOW)
    ELSE LET c1 == [c EXCEPT !.delay_timer = TimerStep(c.delay_timer)]
         IN  IF chk /\ c1.sound_timer - 1 < 0 THEN Panic(c1, SUB_OVERFLOW)
             ELSE [c1 EXCEPT !.sound_timer = TimerStep(c1.sound_timer)]

\* u16::from(memory[pc]) << 8 | u16::from(memory[pc + 1])
FetchWord(c) == c.memory[c.pc] * 256 + c.memory[c.pc + 1]

\* The outcome of tick: the machine, the word fetched (-1 when the call ended
\* before the fetch) and the stage the call reached.
TickOutcome(c, word, stage) == [c |-> c, word |-> word, stage |-> stage]

tick(c, chk, rnd) ==
    LET c1 == TickTimers(c, chk)
    IN  IF c1.result # "Ok" THEN TickOutcome(c1, -1, "timers")
        ELSE IF c1.pc + 1 >= MEMORY_SIZE
        THEN TickOutcome(Panic(c1, INDEX_OOB), -1, "fetch")
        ELSE
          LET word == FetchWord(c1)
              op   == Opcode_from(word)
          IN  IF op.tag = "panic"
              THEN TickOutcome(Panic(c1, BAD_INSTRUCTION), word, "decode")
              ELSE TickOutcome(
                      execute_opcode([c1 EXCEPT !.pc = c1.pc + 2], op, chk, rnd),
                      word, "execute")


(***************************************************************************)
(* Bounds of the model.                                                    *)
(***************************************************************************)
MaxTicks == 2          \* calls of tick explored from an initial state
MaxRomWords == 2       \* instructions in a program file of Roms

(***************************************************************************)
(* The inputs.  A program file is a sequence of bytes; the instruction     *)
(* words of a program are stored high byte first.                          *)
(***************************************************************************)
RECURSIVE RomOf(_)
RomOf(words) ==
    IF Len(words) = 0 THEN << >>
    ELSE <<Head(words) \div 256, Head(words) % 256>> \o RomOf(Tail(words))

\* 0000 noop, 00E0 clear, 00EE return, 1200 jump, 2204 call, 6005 and 60FF
\* load V0, F015 and F018 set the timers, F007 read the delay timer
RomWords == {0, 224, 238, 4608, 8708, 24581, 24831, 61461, 61464, 61447}

RECURSIVE WordSeqs(_)
WordSeqs(k) ==
    IF k = 0 THEN { << >> }
    ELSE LET shorter == WordSeqs(k - 1)
         IN  shorter \cup { Append(ws, w) : ws \in { t \in shorter : Len(t) = k - 1 },
                                            w \in RomWords }

\* a file one byte longer than the memory above 0x200
TooBigRom == [k \in 1 .. (MEMORY_SIZE - PROGRAM_START + 1) |-> 0]

Roms == { RomOf(ws) : ws \in WordSeqs(MaxRomWords) \ { << >> } } \cup {TooBigRom}

\* the bytes rand::random::<u8>() may give: any byte
RandomBytes == 0 .. 255

\* rand::random is called by the Random arm alone: a byte is drawn when the
\* word at pc is Cxkk, and no other tick depends on it
RandomDraws(c) ==
    IF c.pc + 1 < MEMORY_SIZE /\ inst_op(FetchWord(c)) = 12
    THEN RandomBytes ELSE {0}

(***************************************************************************)
(* The state machine.                                                      *)
(***************************************************************************)
\* the Chip8 value the variables hold
Self ==
    [memory      |-> memory,
     reg         |-> reg,
     pc          |-> pc,
     stack       |-> stack,
     i_addr      |-> i_addr,
     delay_timer |-> delay_timer,
     sound_timer |-> sound_timer,
     screen      |-> screen,
     result      |-> result]

\* an entry of the history: the call, the word it fetched (-1: none), the stage
\* it reached, the machine before it
Call(act, word, stage, pre) ==
    [act |-> act, word |-> word, stage |-> stage, pre |-> pre]

\* the entry of a call of load_program: the program file it was given too
LoadCall(data, pre) ==
    [act |-> "load", word |-> -1, stage |-> "none", pre |-> pre, data |-> data]

\* the variables hold the Chip8 value c
Becomes(c) ==
    /\ memory' = c.memory
    /\ reg' = c.reg
    /\ pc' = c.pc
    /\ stack' = c.stack
    /\ i_addr' = c.i_addr
    /\ delay_timer' = c.delay_timer
    /\ sound_timer' = c.sound_timer
    /\ screen' = c.screen
    /\ result' = c.result

Starts(c) ==
    /\ memory = c.memory
    /\ reg = c.reg
    /\ pc = c.pc
    /\ stack = c.stack
    /\ i_addr = c.i_addr
    /\ delay_timer = c.delay_timer
    /\ sound_timer = c.sound_timer
    /\ screen = c.screen
    /\ result = c.result
    /\ hist = << Call("new", -1, "none", c) >>
    /\ ticks = 0

\* main.rs: Chip8::default(), in either build
Init ==
    /\ overflow_checks \in BOOLEAN
    /\ loaded = FALSE
    /\ Starts(Chip8_default)

\* main.rs: chip8.load_program(&data[..]), once, before the loop, with one of
\* the program files roms
LoadFrom(roms) ==
    /\ ~loaded
    /\ result = "Ok"
    /\ \E data \in roms :
          /\ Becomes(load_program(Self, data))
          /\ hist' = Append(hist, LoadCall(data, Self))
    /\ loaded' = TRUE
    /\ UNCHANGED <<overflow_checks, ticks>>

LoadProgram == LoadFrom(Roms)

\* main.rs: chip8.tick()? in the loop; an Err or a panic ends the run.  The
\* loop of main has no bound; the model follows it for at most k calls.
TickUpTo(k) ==
    /\ loaded
    /\ result = "Ok"
    /\ ticks < k
    /\ \E rnd \in RandomDraws(Self) :
          LET t == tick(Self, overflow_checks, rnd)
          IN  /\ Becomes(t.c)
              /\ hist' = Append(hist, Call("tick", t.word, t.stage, Self))
    /\ ticks' = ticks + 1
    /\ UNCHANGED <<overflow_checks, loaded>>

Tick == TickUpTo(MaxTicks)

Next == LoadProgram \/ Tick

Spec == Init /\ [][Next]_vars


(***************************************************************************)
(* StepSpec: tick applied to machines in the middle of a run.  The initial *)
(* machines are drawn from bounded sets of register values, index values,  *)
(* stacks, timers and framebuffers, with a short program at 0x200 (as      *)
(* load_program leaves it) and pc at its first instruction.  Every value   *)
(* drawn is one instructions can produce (6xkk, Annn, 2nnn, Fx15, Fx18,    *)
(* Dxyn).  The only action is Tick.                                        *)
(***************************************************************************)
\* registers: V0 = a, V1 = b, VF = f, and 0x11 * r in every other register r
RegFile(a, b, f) ==
    [r \in 0 .. NUM_REGISTERS - 1 |->
        CASE r = 0  -> a
          [] r = 1  -> b
          [] r = VF -> f
          [] OTHER  -> 17 * r]

\* a machine with the program words at 0x200 and the given fields
Machine(words, regs, ia, stk, dt, st, scr) ==
    [load_program(Chip8_default, RomOf(words)) EXCEPT
        !.reg = regs, !.i_addr = ia, !.stack = stk,
        !.delay_timer = dt, !.sound_timer = st, !.screen = scr]

\* a framebuffer with two glyphs on it: "8" at (0, 0), "0" wrapped around the
\* corner at (62, 30), drawn by DisplaySprite itself
PaintedScreen ==
    LET m1 == Machine(<< >>, RegFile(0, 0, 0), 40, << >>, 0, 0, BlankScreen)
        s1 == DisplaySprite(m1, 0, 1, 5, FALSE).screen
        m2 == Machine(<< >>, RegFile(62, 30, 0), 0, << >>, 0, 0, s1)
    IN  DisplaySprite(m2, 0, 1, 5, FALSE).screen

\* 8014 8015 8016 8017 801E on V0 and V1; 8104 (x = 1); 8F14 8F15 8F16 8F17
\* 8F1E (x = 15); 80F4 80F5 (y = 15); 7002 70FF 7100 7F01 (add constant)
ArithWords == {32788, 32789, 32790, 32791, 32798, 33028, 36628, 36629,
               36630, 36631, 36638,
               33012, 33013, 28674, 28927, 28928, 32513}

ArithLeft  == {0, 1, 127, 128, 255}
ArithRight == {0, 1, 2, 128, 255}
Flags      == {0, 1}

\* what an initial machine is drawn from: the program words, V0, V1, VF, the
\* index register, the stack, the two timers, whether the framebuffer is painted
Draw(words, a, b, f, ia, stk, dt, st, painted) ==
    [words |-> words, a |-> a, b |-> b, f |-> f, ia |-> ia, stk |-> stk,
     dt |-> dt, st |-> st, painted |-> painted]

ArithMachines ==
    { Draw(<<w>>, a, b, f, 0, << >>, 3, 3, FALSE) :
        w \in ArithWords, a \in ArithLeft, b \in ArithRight, f \in Flags }

\* D010 D011 D012 D015 D01F: draw 0, 1, 2, 5, 15 rows at (V0, V1), twice;
\* the bytes FF 81 after the program are sprite data at 0x204
DrawPrograms == { <<w, w, 65409>> : w \in {53264, 53265, 53266, 53269, 53279} }

DrawX == {0, 57, 63, 250, 255}
DrawY == {0, 31, 250}
DrawIndex == {0, 516, 4094}

DrawMachines ==
    { Draw(p, a, b, f, ia, << >>, 3, 3, painted) :
        p \in DrawPrograms, a \in DrawX, b \in DrawY, f \in Flags,
        ia \in DrawIndex, painted \in BOOLEAN }

\* Fx55 then Fx65 for x = 0, 1, 2, 3, 15; F255 then F165; F155 then a noop;
\* F165 and FF65 then a noop
StorePrograms ==
    { <<61525, 61541>>, <<61781, 61797>>, <<62037, 62053>>, <<62293, 62309>>,
      <<65365, 65381>>, <<62037, 61797>>, <<61781, 0>>, <<61797, 0>>,
      <<65381, 0>> }

\* 0x300; 0x202 (the second instruction itself); 0xFF0; 0xFF1; 0xFFE
StoreIndex == {768, 514, 4080, 4081, 4094}

StoreMachines ==
    { Draw(p, a, b, f, ia, << >>, 3, 3, FALSE) :
        p \in StorePrograms, a \in {0, 7, 241}, b \in {1, 101}, f \in {0, 9},
        ia \in StoreIndex }

\* 00EE return, 2204 call, 1204 jump, 0000 noop, F015 F118 set timers
FlowPrograms == { <<w, 238>> : w \in {238, 8708, 4612, 0, 61461, 61720} }

TimerPairs == {<<0, 0>>, <<1, 0>>, <<0, 2>>, <<3, 3>>, <<255, 1>>}

FlowMachines ==
    { Draw(p, a, 5, 0, 0, stk, tp[1], tp[2], FALSE) :
        p \in FlowPrograms, a \in {0, 9}, stk \in { << >>, <<518>>, <<518, 520>> },
        tp \in TimerPairs }

\* 3001 30FF 4001 40FF 3F01 (V[x] against kk); 5010 9010 5100 9F10 (V[x]
\* against V[y]); a noop follows
SkipWords == {12289, 12543, 16385, 16639, 16129, 20496, 36880, 20736, 40720}

SkipMachines ==
    { Draw(<<w, 0>>, a, b, f, 0, stk, 3, 3, painted) :
        w \in SkipWords, a \in {0, 1, 255}, b \in {0, 1, 255}, f \in Flags,
        stk \in { << >>, <<518>> }, painted \in BOOLEAN }

\* 00E0 clear, 01E0 and 0AE0, 0000 and 0123, 6005 load, A300 index, then a
\* noop, on the blank and on the painted framebuffer
ClearWords == {224, 480, 2784, 0, 291, 24581, 41728}

ClearMachines ==
    { Draw(<<w, 0>>, a, 0, f, 0, << >>, 3, 3, painted) :
        w \in ClearWords, a \in {0, 9}, f \in Flags, painted \in BOOLEAN }

\* E09E then E0A1, E0A1 then E09E, E19E then E1A1 (the key of V0 = a, of
\* V1 = b), and F00A (wait for a key into V0) then 6105 or F00A again
KeyPrograms ==
    { <<57502, 57505, 57505>>, <<57505, 57502, 57502>>, <<57758, 57761, 57761>>,
      <<61450, 24837, 0>>, <<61450, 61450, 0>> }

KeyMachines ==
    { Draw(p, a, b, f, 0, << >>, tp[1], tp[2], FALSE) :
        p \in KeyPrograms, a \in {0, 5, 15}, b \in {0, 10}, f \in Flags,
        tp \in {<<3, 3>>, <<60, 0>>} }

StepMachines ==
    ArithMachines \cup DrawMachines \cup StoreMachines \cup FlowMachines
        \cup SkipMachines \cup ClearMachines \cup KeyMachines

StepInit ==
    /\ overflow_checks \in BOOLEAN
    /\ loaded = TRUE
    /\ \E d \in StepMachines :
          Starts(Machine(d.words, RegFile(d.a, d.b, d.f), d.ia, d.stk, d.dt, d.st,
                         IF d.painted THEN PaintedScreen ELSE BlankScreen))

StepNext == Tick

StepSpec == StepInit /\ [][StepNext]_vars

(***************************************************************************)
(* DecodeSpec: the machine of Spec in the build without overflow checks    *)
(* (the one whose first tick gets as far as the decoder), run on the       *)
(* program files of one instruction, for every word of DecodeWords: every  *)
(* opcode nibble with every low byte, and every word 0nnn for the x        *)
(* nibbles of DecodeXs.                                                    *)
(***************************************************************************)
DecodeXs == {1, 10}

DecodeWords ==
    { o * 4096 + low : o \in 0 .. 15, low \in 0 .. 255 }
    \cup { xn * 256 + low : xn \in DecodeXs, low \in 0 .. 255 }
    \cup {56006, 8916, 35527, 63829}        \* DAB6, 22D4, 8AC7 and F955

DecodeInit == Init /\ ~overflow_checks

LoadWord == LoadFrom({ RomOf(<<w>>) : w \in DecodeWords })

DecodeNext == LoadWord \/ Tick

DecodeSpec == DecodeInit /\ [][DecodeNext]_vars

(***************************************************************************)
(* RunSpec: the machine of Spec run for MaxRunTicks calls of tick on three *)
(* families of program files.  CallRoms: four instructions over RunWords,  *)
(* calls into the program (2204, 2206), return (00EE), load V0 (60FF),     *)
(* jump to V0 + nnn (BFFF) and a jump to the last instruction of memory    *)
(* (1FFE), where the zero bytes of memory are a no-op.  IndexRoms: three   *)
(* instructions over IndexWords, which set and use the index register.     *)
(* DrawRoms: four instructions over DrawWords, which draw and clear.       *)
(* WrapRoms: load V0 and V1, point the index at the sprite bytes FF 81     *)
(* that follow the program, and draw 0, 1, 2, 5 or 15 rows at (V0, V1).    *)
(***************************************************************************)
MaxRunTicks == 4

RunWords == {8708, 8710, 238, 24831, 49151, 8190}

CallRoms == { RomOf(<<w1, w2, w3, w4>>) :
                w1 \in RunWords, w2 \in RunWords, w3 \in RunWords, w4 \in RunWords }

\* 60FF load V0, AFFF index = 0xFFF, F01E index += V0, F029 index = glyph of
\* V0, F033 digits of V0 at index, F155 store from index
IndexWords == {24831, 45055, 61470, 61481, 61491, 61781}

IndexRoms == { RomOf(<<w1, w2, w3>>) :
                w1 \in IndexWords, w2 \in IndexWords, w3 \in IndexWords }

\* D015 draw five rows at (V0, V1), A005 index = glyph "1", 00E0 clear,
\* 6003 load V0
DrawWords == {53269, 40965, 224, 24579}

DrawRoms == { RomOf(<<w1, w2, w3, w4>>) :
                w1 \in DrawWords, w2 \in DrawWords, w3 \in DrawWords, w4 \in DrawWords }

\* 60xx, 61yy, A208, D01n, and the sprite bytes FF 81 at 0x208
WrapRoms == { RomOf(<<24576 + xv, 24832 + yv, 41480, d, 65409>>) :
                xv \in DrawX, yv \in DrawY,
                d \in {53264, 53265, 53266, 53269, 53279} }

RunRoms == CallRoms \cup IndexRoms \cup DrawRoms \cup WrapRoms

LoadRun == LoadFrom(RunRoms)

RunTick == TickUpTo(MaxRunTicks)

RunNext == LoadRun \/ RunTick

RunSpec == Init /\ [][RunNext]_vars

(***************************************************************************)
(* History: what the last call and the call before it were.                *)
(***************************************************************************)
last == hist[Len(hist)]                  \* the last call
Pre == last.pre                          \* the machine before the last call
Ticked == last.act = "tick"              \* the last call was tick
Fetched == Ticked /\ last.word >= 0      \* ... and it fetched a word
Executed == Ticked /\ last.stage = "execute"   \* ... and dispatched it
LastOp == Opcode_from(last.word)         \* the instruction it decoded
Completed == Executed /\ result = "Ok"   \* ... and the instruction returned Ok(())
Ran(tag) == Executed /\ LastOp.tag = tag

\* what a timer is after one decrement floored at 0
Floored(t) == IF t = 0 THEN 0 ELSE t - 1

(***************************************************************************)
(* C1.  Timer floor: advancing the timers never faults; a timer that is 0  *)
(* stays 0 (it never wraps to 255) and a timer t > 0 becomes t - 1.  The   *)
(* timers are advanced at the start of every tick; an instruction Fx15 or  *)
(* Fx18 executed by the same tick then sets its timer.                     *)
(***************************************************************************)
C1_TimerFloor ==
    Ticked =>
        /\ last.stage # "timers"
        /\ ~Ran("SetDelayTimer") => delay_timer = Floored(Pre.delay_timer)
        /\ ~Ran("SetSoundTimer") => sound_timer = Floored(Pre.sound_timer)

(***************************************************************************)
(* C2.  Stepping and timer ticking are independent: a fetch-decode-execute *)
(* cycle leaves the delay timer unchanged unless it executes Fx15 and the  *)
(* sound timer unchanged unless it executes Fx18.  (tick is the only entry *)
(* point that touches the timers, so a separate timer tick has no code to  *)
(* state against.)                                                         *)
(***************************************************************************)
C2_StepLeavesTimers ==
    Executed =>
        /\ ~Ran("SetDelayTimer") => delay_timer = Pre.delay_timer
        /\ ~Ran("SetSoundTimer") => sound_timer = Pre.sound_timer

(***************************************************************************)
(* C8.  Stack underflow, as claimed: a step that executes 00EE with the    *)
(* call stack empty reports the error and the program counter after it     *)
(* equals the program counter before it; stack, registers, index register, *)
(* memory and framebuffer are unchanged.                                   *)
(***************************************************************************)
UnderflowStep == Ran("Return") /\ Len(Pre.stack) = 0

RestUnchanged ==
    /\ stack = Pre.stack
    /\ reg = Pre.reg
    /\ i_addr = Pre.i_addr
    /\ memory = Pre.memory
    /\ screen = Pre.screen

C8_NoPcMutation ==
    UnderflowStep => (result = "Err" /\ pc = Pre.pc /\ RestUnchanged)

(***************************************************************************)
(* C8, amended.  A step that executes 00EE with the call stack empty       *)
(* reports the error to the caller; the return assigns nothing to the      *)
(* program counter, which keeps the value the fetch gave it (the address   *)
(* of the 00EE plus 2); stack, registers, index register, memory and       *)
(* framebuffer are unchanged.                                              *)
(***************************************************************************)
C8_UnderflowReported ==
    UnderflowStep => (result = "Err" /\ pc = Pre.pc + 2 /\ RestUnchanged)

C8_Witness ==
    /\ UnderflowStep
    /\ result = "Err"
    /\ pc = PROGRAM_START + 2


(***************************************************************************)
(* The call before the last one.                                           *)
(***************************************************************************)
HasPrev == Len(hist) >= 2
Prev == hist[Len(hist) - 1]
PrevExecuted == HasPrev /\ Prev.act = "tick" /\ Prev.stage = "execute"
PrevOp == Opcode_from(Prev.word)

(***************************************************************************)
(* C3.  8xy4 with x # 15: afterwards V[x] = (V[x] + V[y]) mod 256 and      *)
(* register 15 is 1 if the sum exceeded 255 and 0 otherwise, whatever      *)
(* register 15 held before.                                                *)
(***************************************************************************)
C3_AddCarry ==
    (Ran("AddRegister") /\ LastOp.vx # VF) =>
        LET sum == Pre.reg[LastOp.vx] + Pre.reg[LastOp.vy]
        IN  /\ result = "Ok"
            /\ reg[LastOp.vx] = sum % 256
            /\ reg[VF] = IF sum > 255 THEN 1 ELSE 0

(***************************************************************************)
(* C4.  8xy5 with x # 15: the instruction completes without faulting,      *)
(* V[x] becomes (V[x] - V[y]) mod 256, and register 15 is 1 if V[x] > V[y] *)
(* before the subtraction and 0 otherwise, whatever it held before.        *)
(***************************************************************************)
C4_SubBorrow ==
    (Ran("SubtractRightRegister") /\ LastOp.vx # VF) =>
        LET a == Pre.reg[LastOp.vx]
            b == Pre.reg[LastOp.vy]
        IN  /\ result = "Ok"
            /\ reg[LastOp.vx] = (a - b) % 256
            /\ reg[VF] = IF a > b THEN 1 ELSE 0

(***************************************************************************)
(* C5.  7xkk: the instruction completes, afterwards V[x] = (V[x] + kk)     *)
(* mod 256, and every other register (register 15 too, when x # 15) is     *)
(* unchanged.                                                              *)
(***************************************************************************)
C5_AddConstantWraps ==
    Ran("AddConstant") =>
        /\ result = "Ok"
        /\ reg[LastOp.vx] = (Pre.reg[LastOp.vx] + LastOp.kk) % 256
        /\ \A r \in 0 .. NUM_REGISTERS - 1 : r # LastOp.vx => reg[r] = Pre.reg[r]

\* 7002 executed with V0 = 0xFF: V0 is 1 afterwards, and VF is the 0 it was
C5_Witness ==
    /\ Ran("AddConstant")
    /\ LastOp.vx = 0 /\ LastOp.kk = 2
    /\ Pre.reg[0] = 255 /\ Pre.reg[VF] = 0
    /\ reg[0] = 1 /\ reg[VF] = 0

(***************************************************************************)
(* C6.  Dxyn: the instruction never faults because of the coordinate       *)
(* arithmetic, and when it completes the sprite bit of row r and column c  *)
(* (the most significant bit is column 0) has been XORed into the pixel    *)
(* ((V[x] + c) mod 64, (V[y] + r) mod 32), and no other pixel changed.     *)
(* Checked on the draws a run from construction reaches (RunSpec).         *)
(***************************************************************************)
SpriteBit(mem, ia, r, col) == (mem[ia + r] \div (2 ^ (7 - col))) % 2

PixelAt(ox, oy, r, col) ==
    ((oy + r) % SCREEN_HEIGHT) * SCREEN_WIDTH + ((ox + col) % SCREEN_WIDTH)

C6_DrawWraps ==
    Ran("DisplaySprite") =>
        LET ox == Pre.reg[LastOp.vx]
            oy == Pre.reg[LastOp.vy]
            cells == (0 .. LastOp.n - 1) \X (0 .. 7)
            touched == { PixelAt(ox, oy, rc[1], rc[2]) : rc \in cells }
        IN  /\ result # ADD_OVERFLOW
            /\ result = "Ok" =>
                 /\ \A rc \in cells :
                       screen[PixelAt(ox, oy, rc[1], rc[2])] =
                          (Pre.screen[PixelAt(ox, oy, rc[1], rc[2])]
                             + SpriteBit(Pre.memory, Pre.i_addr, rc[1], rc[2])) % 2
                 /\ \A p \in DOMAIN screen :
                       p \notin touched => screen[p] = Pre.screen[p]

\* 603F 611F A208 D012 from construction: the row FF drawn at (63, 31) sets
\* x = 63 and x = 0..6 of row 31, the row 81 wraps to row 0 and sets x = 63
\* and x = 6 there
C6_Witness ==
    /\ Ran("DisplaySprite") /\ result = "Ok"
    /\ LastOp.n = 2
    /\ Pre.reg[LastOp.vx] = 63 /\ Pre.reg[LastOp.vy] = 31
    /\ Pre.memory[Pre.i_addr] = 255 /\ Pre.memory[Pre.i_addr + 1] = 129
    /\ Pre.screen = BlankScreen
    /\ \A px \in 0 .. SCREEN_WIDTH - 1 :
          /\ screen[31 * SCREEN_WIDTH + px] = (IF px = 63 \/ px <= 6 THEN 1 ELSE 0)
          /\ screen[px] = (IF px = 63 \/ px = 6 THEN 1 ELSE 0)

(***************************************************************************)
(* C7.  Draw is its own inverse: when the same Dxyn is executed twice in   *)
(* a row with the origin registers, the index register and the sprite      *)
(* bytes unchanged in between, the framebuffer after the second draw is    *)
(* the framebuffer before the first, and register 15 is 1 after the second *)
(* draw if the sprite has a set bit.                                       *)
(***************************************************************************)
SameDrawTwice ==
    /\ Ran("DisplaySprite") /\ result = "Ok"
    /\ PrevExecuted /\ Prev.word = last.word
    /\ Pre.reg[LastOp.vx] = Prev.pre.reg[LastOp.vx]
    /\ Pre.reg[LastOp.vy] = Prev.pre.reg[LastOp.vy]
    /\ Pre.i_addr = Prev.pre.i_addr
    /\ \A r \in 0 .. LastOp.n - 1 :
          Pre.memory[Pre.i_addr + r] = Prev.pre.memory[Pre.i_addr + r]

SpriteHasBit ==
    \E r \in 0 .. LastOp.n - 1 : Pre.memory[Pre.i_addr + r] # 0

C7_DrawTwiceRestores ==
    SameDrawTwice =>
        /\ screen = Prev.pre.screen
        /\ SpriteHasBit => reg[VF] = 1

\* D011 twice at (63, 31) with the sprite byte FF on the painted framebuffer:
\* the first draw changed the framebuffer, the second restored it
C7_Witness ==
    /\ SameDrawTwice
    /\ SpriteHasBit
    /\ LastOp.n = 1
    /\ Pre.memory[Pre.i_addr] = 255
    /\ Pre.reg[LastOp.vx] = 63
    /\ Pre.screen # Prev.pre.screen
    /\ screen = Prev.pre.screen
    /\ screen # BlankScreen
    /\ reg[VF] = 1

(***************************************************************************)
(* C9.  Round trip: Fx55 and then Fx65 with the same x and the same index  *)
(* register, index + x inside memory, leave all 16 registers as they were  *)
(* before the Fx55.                                                        *)
(***************************************************************************)
StoreThenLoad ==
    /\ Ran("LoadRegisters")
    /\ PrevExecuted /\ PrevOp.tag = "StoreRegisters"
    /\ PrevOp.vx = LastOp.vx
    /\ Pre.i_addr = Prev.pre.i_addr
    /\ Pre.i_addr + LastOp.vx < MEMORY_SIZE

C9_StoreLoadRoundTrip ==
    StoreThenLoad => (result = "Ok" /\ reg = Prev.pre.reg)

\* FF55 then FF65 with the index at 0xFF0: the registers were written to
\* memory and read back
C9_Witness ==
    /\ StoreThenLoad
    /\ LastOp.vx = 15
    /\ Pre.i_addr = 4080
    /\ Pre.memory # Prev.pre.memory
    /\ Prev.pre.reg[0] = 241
    /\ reg = Prev.pre.reg


(***************************************************************************)
(* C10.  Decoder conformance: every word that matches a row of the         *)
(* encoding table decodes to that row's variant, with the operands taken   *)
(* from the canonical bit-fields (x = bits 11..8, y = bits 7..4, n = bits  *)
(* 3..0, kk = bits 7..0, nnn = bits 11..0).  TableRow is the table of the  *)
(* specification, row by row; NoRow stands for a word no row matches.      *)
(***************************************************************************)
NoRow == Op0("none")

FieldX(w) == (w \div 256) % 16
FieldY(w) == (w \div 16) % 16
FieldN(w) == w % 16
FieldKK(w) == w % 256
FieldNNN(w) == w % 4096

RowXKK(tag, w) == Op(tag, FieldX(w), 0, FieldKK(w), 0, 0)
RowXY(tag, w)  == Op(tag, FieldX(w), FieldY(w), 0, 0, 0)
RowX(tag, w)   == Op(tag, FieldX(w), 0, 0, 0, 0)
RowNNN(tag, w) == Op(tag, 0, 0, 0, FieldNNN(w), 0)

TableRow8(w) ==
    CASE FieldN(w) = 0  -> RowXY("LoadRegister", w)
      [] FieldN(w) = 1  -> RowXY("Or", w)
      [] FieldN(w) = 2  -> RowXY("And", w)
      [] FieldN(w) = 3  -> RowXY("Xor", w)
      [] FieldN(w) = 4  -> RowXY("AddRegister", w)
      [] FieldN(w) = 5  -> RowXY("SubtractRightRegister", w)
      [] FieldN(w) = 6  -> RowX("ShiftRight", w)
      [] FieldN(w) = 7  -> RowXY("SubtractLeftRegister", w)
      [] FieldN(w) = 14 -> RowX("ShiftLeft", w)
      [] OTHER          -> NoRow

TableRowF(w) ==
    CASE FieldKK(w) = 7   -> RowX("LoadDelayTimer", w)
      [] FieldKK(w) = 10  -> RowX("WaitForPress", w)
      [] FieldKK(w) = 21  -> RowX("SetDelayTimer", w)
      [] FieldKK(w) = 24  -> RowX("SetSoundTimer", w)
      [] FieldKK(w) = 30  -> RowX("AddAddress", w)
      [] FieldKK(w) = 41  -> RowX("LoadAddressOfSprite", w)
      [] FieldKK(w) = 51  -> RowX("LoadDigits", w)
      [] FieldKK(w) = 85  -> RowX("StoreRegisters", w)
      [] FieldKK(w) = 101 -> RowX("LoadRegisters", w)
      [] OTHER            -> NoRow

TableRow(w) ==
    CASE w = 224          -> Op0("ClearDisplay")
      [] w = 238          -> Op0("Return")
      [] w \div 4096 = 0 /\ w # 224 /\ w # 238 -> Op0("Noop")
      [] w \div 4096 = 1  -> RowNNN("Jump", w)
      [] w \div 4096 = 2  -> RowNNN("CallSubroutine", w)
      [] w \div 4096 = 3  -> RowXKK("SkipIfConstantEqual", w)
      [] w \div 4096 = 4  -> RowXKK("SkipIfConstantNotEqual", w)
      [] w \div 4096 = 5  -> IF FieldN(w) = 0 THEN RowXY("SkipIfRegistersEqual", w)
                             ELSE NoRow
      [] w \div 4096 = 6  -> RowXKK("LoadConstant", w)
      [] w \div 4096 = 7  -> RowXKK("AddConstant", w)
      [] w \div 4096 = 8  -> TableRow8(w)
      [] w \div 4096 = 9  -> IF FieldN(w) = 0 THEN RowXY("SkipIfRegistersNotEqual", w)
                             ELSE NoRow
      [] w \div 4096 = 10 -> RowNNN("LoadAddress", w)
      [] w \div 4096 = 11 -> RowNNN("JumpPlus", w)
      [] w \div 4096 = 12 -> RowXKK("Random", w)
      [] w \div 4096 = 13 -> Op("DisplaySprite", FieldX(w), FieldY(w), 0, 0, FieldN(w))
      [] w \div 4096 = 14 -> IF FieldKK(w) = 158 THEN RowX("SkipIfPressed", w)
                             ELSE IF FieldKK(w) = 161 THEN RowX("SkipIfNotPressed", w)
                             ELSE NoRow
      [] w \div 4096 = 15 -> TableRowF(w)

C10_DecoderConforms ==
    (Fetched /\ TableRow(last.word) # NoRow) =>
        /\ last.stage = "execute"
        /\ LastOp = TableRow(last.word)

(***************************************************************************)
(* C11.  Decode error: every word that matches no row of the encoding      *)
(* table (5xyN and 9xyN with N # 0, 8xyN with N outside 0..7 and E, ExKK    *)
(* with KK outside 9E and A1, FxKK with KK outside the nine listed bytes)   *)
(* yields a decode error: the step that fetches it stops in the decoder,    *)
(* with the decoder's fault, and the word is not executed.                  *)
(***************************************************************************)
C11_NoRowIsDecodeError ==
    (Fetched /\ TableRow(last.word) = NoRow) =>
        /\ last.stage = "decode"
        /\ LastOp = NotRecognized
        /\ result = BAD_INSTRUCTION

(***************************************************************************)
(* C12.  0nnn: every word with top nibble 0 other than 00E0 and 00EE       *)
(* decodes to the no-op, and the step that executes it leaves registers,   *)
(* index register, memory, call stack and framebuffer unchanged and        *)
(* advances the program counter by 2; only the word 00E0 clears the        *)
(* framebuffer and only the word 00EE returns.                             *)
(***************************************************************************)
C12_SysIsNoop ==
    /\ (Fetched /\ last.word \div 4096 = 0 /\ last.word \notin {224, 238}) =>
          /\ Ran("Noop")
          /\ result = "Ok"
          /\ pc = Pre.pc + 2
          /\ RestUnchanged
    /\ Ran("ClearDisplay") => last.word = 224
    /\ Ran("Return") => last.word = 238

(***************************************************************************)
(* C13.  Load: a program of more than 4096 - 0x200 = 3584 bytes is         *)
(* rejected with an error returned to the caller, and memory and every     *)
(* other part of the machine are as before the call; a program of at most  *)
(* 3584 bytes is copied, byte i to address 0x200 + i, and no other address *)
(* changes.                                                                *)
(***************************************************************************)
LoadedLast == last.act = "load"

MachineUnchanged ==
    /\ RestUnchanged
    /\ pc = Pre.pc
    /\ delay_timer = Pre.delay_timer
    /\ sound_timer = Pre.sound_timer

C13_LoadRejectsOrCopies ==
    LoadedLast =>
        IF Len(last.data) > MEMORY_SIZE - PROGRAM_START
        THEN /\ result = "Err"
             /\ MachineUnchanged
        ELSE /\ result = "Ok"
             /\ \A a \in DOMAIN memory :
                   memory[a] =
                      IF a >= PROGRAM_START /\ a < PROGRAM_START + Len(last.data)
                      THEN last.data[a - PROGRAM_START + 1]
                      ELSE Pre.memory[a]

(***************************************************************************)
(* C14.  Flag write is last: after 8xy4, 8xy5, 8xy6, 8xy7 or 8xyE with     *)
(* x = 15 has completed, register 15 holds the flag of the instruction     *)
(* (carry, no borrow, or the bit shifted out), not the arithmetic result.  *)
(***************************************************************************)
FlagOps == {"AddRegister", "SubtractRightRegister", "ShiftRight",
            "SubtractLeftRegister", "ShiftLeft"}

\* the flag of the table for the instruction tag on V[x] = a and V[y] = b
FlagOf(tag, a, b) ==
    CASE tag = "AddRegister"           -> IF a + b > 255 THEN 1 ELSE 0
      [] tag = "SubtractRightRegister" -> IF a > b THEN 1 ELSE 0
      [] tag = "ShiftRight"            -> a % 2
      [] tag = "SubtractLeftRegister"  -> IF b > a THEN 1 ELSE 0
      [] tag = "ShiftLeft"             -> a \div 128

\* the y operand of the last word, by its bit-field: the decoder drops it for
\* the shifts
LastY == FieldY(last.word)

C14_FlagWriteLast ==
    (Completed /\ LastOp.tag \in FlagOps /\ LastOp.vx = VF) =>
        reg[VF] = FlagOf(LastOp.tag, Pre.reg[VF], Pre.reg[LastY])

(***************************************************************************)
(* C15.  The draw's collision flag is exact: after a Dxyn has completed,   *)
(* register 15 is 1 if a pixel that was set before the draw was turned off *)
(* by it (sprite bit 1 on a pixel holding 1), and 0 if there is no such    *)
(* pixel, whatever register 15 held before.                                *)
(***************************************************************************)
Collided ==
    \E r \in 0 .. LastOp.n - 1, col \in 0 .. 7 :
        /\ SpriteBit(Pre.memory, Pre.i_addr, r, col) = 1
        /\ Pre.screen[PixelAt(Pre.reg[LastOp.vx], Pre.reg[LastOp.vy], r, col)] = 1

C15_CollisionFlagExact ==
    (Ran("DisplaySprite") /\ result = "Ok") =>
        reg[VF] = IF Collided THEN 1 ELSE 0

(***************************************************************************)
(* C16.  Fx55 stores V[0..=x]: after an Fx55 with index + x inside memory  *)
(* has completed, memory[index + i] = V[i] for every i in 0..x (register x *)
(* included), and no other address and no register has changed.            *)
(***************************************************************************)
C16_StoreInclusive ==
    (Ran("StoreRegisters") /\ Pre.i_addr + LastOp.vx < MEMORY_SIZE) =>
        /\ result = "Ok"
        /\ \A a \in DOMAIN memory :
              memory[a] =
                 IF a >= Pre.i_addr /\ a <= Pre.i_addr + LastOp.vx
                 THEN Pre.reg[a - Pre.i_addr]
                 ELSE Pre.memory[a]
        /\ reg = Pre.reg

(***************************************************************************)
(* C17.  Fx65 loads V[0..=x]: after an Fx65 with index + x inside memory   *)
(* has completed, V[i] = memory[index + i] for every i in 0..x (register x *)
(* included), the registers above x are unchanged, and memory is unchanged.*)
(***************************************************************************)
C17_LoadInclusive ==
    (Ran("LoadRegisters") /\ Pre.i_addr + LastOp.vx < MEMORY_SIZE) =>
        /\ result = "Ok"
        /\ \A r \in 0 .. NUM_REGISTERS - 1 :
              reg[r] = IF r <= LastOp.vx THEN Pre.memory[Pre.i_addr + r]
                       ELSE Pre.reg[r]
        /\ memory = Pre.memory

(***************************************************************************)
(* C18.  Skip width: a step that fetches a skip instruction at address a   *)
(* leaves the program counter at a + 4 when the condition holds and at     *)
(* a + 2 when it does not, the condition being V[x] = kk for 3xkk,         *)
(* V[x] # kk for 4xkk, V[x] = V[y] for 5xy0 and V[x] # V[y] for 9xy0; the  *)
(* registers, memory, stack and framebuffer are unchanged.                 *)
(***************************************************************************)
IsSkipWord(w) ==
    \/ w \div 4096 \in {3, 4}
    \/ w \div 4096 \in {5, 9} /\ FieldN(w) = 0

\* the condition of the table for the skip word w on the registers regs
SkipCondition(w, regs) ==
    CASE w \div 4096 = 3 -> regs[FieldX(w)] = FieldKK(w)
      [] w \div 4096 = 4 -> regs[FieldX(w)] # FieldKK(w)
      [] w \div 4096 = 5 -> regs[FieldX(w)] = regs[FieldY(w)]
      [] w \div 4096 = 9 -> regs[FieldX(w)] # regs[FieldY(w)]

C18_SkipWidth ==
    (Fetched /\ IsSkipWord(last.word)) =>
        /\ result = "Ok"
        /\ pc = Pre.pc + (IF SkipCondition(last.word, Pre.reg) THEN 4 ELSE 2)
        /\ RestUnchanged

\* 9F10 at 0x200 with VF = 1 and V1 = 0: the registers differ, pc is 0x204
C18_Witness ==
    /\ Fetched /\ last.word = 40720
    /\ Pre.reg[VF] = 1 /\ Pre.reg[1] = 0
    /\ Pre.pc = PROGRAM_START
    /\ pc = PROGRAM_START + 4
    /\ result = "Ok"

(***************************************************************************)
(* C19.  Call and return are strictly last-in first-out over any sequence  *)
(* of steps: 2nnn fetched at address a pushes a + 2 and sets the program   *)
(* counter to nnn; 00EE on a non-empty stack removes the most recently     *)
(* pushed entry and sets the program counter to it; no other instruction   *)
(* changes the call stack.  So at every moment the call stack is the list  *)
(* of the return addresses of the calls not yet returned from, oldest      *)
(* first, as the history of the run gives it.                              *)
(***************************************************************************)
\* the return addresses pending after the first k calls of the history h
RECURSIVE Pending(_, _)
Pending(h, k) ==
    IF k = 0 THEN << >>
    ELSE LET before == Pending(h, k - 1)
             e      == h[k]
             tag    == IF e.act = "tick" /\ e.stage = "execute"
                       THEN Opcode_from(e.word).tag ELSE "none"
         IN  CASE tag = "CallSubroutine" -> Append(before, e.pre.pc + 2)
               [] tag = "Return" /\ Len(before) > 0 ->
                      SubSeq(before, 1, Len(before) - 1)
               [] OTHER -> before

C19_CallReturnLifo ==
    /\ Ran("CallSubroutine") =>
          /\ result = "Ok"
          /\ stack = Append(Pre.stack, Pre.pc + 2)
          /\ pc = LastOp.nnn
    /\ (Ran("Return") /\ Len(Pre.stack) > 0) =>
          /\ result = "Ok"
          /\ pc = Pre.stack[Len(Pre.stack)]
          /\ stack = SubSeq(Pre.stack, 1, Len(Pre.stack) - 1)
    /\ (Ticked /\ ~Ran("CallSubroutine") /\ ~Ran("Return")) => stack = Pre.stack
    /\ stack = Pending(hist, Len(hist))

\* 2204 at 0x200, 2206 at 0x204, 00EE at 0x206 twice: the second return
\* resumes after the first call, the first return after the second call
C19_Witness ==
    /\ Len(hist) = 6
    /\ hist[3].word = 8708 /\ hist[4].word = 8710
    /\ hist[5].word = 238 /\ hist[5].pre.stack = <<514, 518>>
    /\ hist[6].word = 238 /\ hist[6].pre.pc = 518 /\ hist[6].pre.stack = <<514>>
    /\ pc = 514
    /\ stack = << >>
    /\ result = "Ok"

(***************************************************************************)
(* C20.  Program-counter invariant: in every state reached from a freshly  *)
(* constructed machine by successful steps of a loaded program, the        *)
(* program counter is an address into memory, 0 <= pc <= 4095.             *)
(***************************************************************************)
C20_PcInMemory ==
    result = "Ok" => (pc >= 0 /\ pc <= MEMORY_SIZE - 1)

(***************************************************************************)
(* C21.  Index-register invariant: in every reachable state the index      *)
(* register is within the 12-bit address range, 0 <= index <= 0xFFF,       *)
(* after any sequence of Annn, Fx1E and Fx29.                              *)
(***************************************************************************)
C21_IndexInRange ==
    i_addr >= 0 /\ i_addr <= MEMORY_SIZE - 1

(***************************************************************************)
(* C22.  The font region is immutable: in every state reached by loads and *)
(* steps the reserved region 0x000..0x1FF holds what construction put      *)
(* there, the 16 five-byte glyphs at 0x000..0x04F (glyph d at 5 * d) and   *)
(* zeros above them.                                                       *)
(***************************************************************************)
C22_FontRegionImmutable ==
    /\ \A d \in 0 .. 15, k \in 0 .. 4 : memory[5 * d + k] = FONT[5 * d + k + 1]
    /\ \A a \in 80 .. PROGRAM_START - 1 : memory[a] = 0

(***************************************************************************)
(* C23.  Framebuffer frame condition: a step changes the framebuffer only  *)
(* when the instruction it executes is Dxyn or 00E0, and after 00E0 all    *)
(* 64 * 32 pixels are 0; every other step and a program load leave all     *)
(* pixels unchanged.                                                       *)
(***************************************************************************)
C23_FramebufferFrame ==
    /\ (Ticked /\ screen # Pre.screen) =>
          (Fetched /\ (last.word \div 4096 = 13 \/ last.word = 224))
    /\ (Executed /\ last.word = 224) => screen = BlankScreen
    /\ LoadedLast => screen = Pre.screen

(***************************************************************************)
(* C24.  Key-conditional skips: Ex9E skips (pc = a + 4) if the key V[x] is *)
(* held and does not (pc = a + 2) otherwise, ExA1 the other way round; so  *)
(* of an Ex9E and an ExA1 with the same x executed one after the other on  *)
(* the same V[x], with no key event in between (the machine has no entry   *)
(* point that delivers one), exactly one skips.                            *)
(***************************************************************************)
KeySkipTags == {"SkipIfPressed", "SkipIfNotPressed"}

KeySkipPair ==
    /\ Executed /\ PrevExecuted
    /\ LastOp.tag \in KeySkipTags /\ PrevOp.tag \in KeySkipTags
    /\ LastOp.tag # PrevOp.tag
    /\ LastOp.vx = PrevOp.vx
    /\ Pre.reg[LastOp.vx] = Prev.pre.reg[PrevOp.vx]

C24_KeySkips ==
    /\ (Executed /\ LastOp.tag \in KeySkipTags) =>
          (result = "Ok" /\ pc \in {Pre.pc + 2, Pre.pc + 4})
    /\ KeySkipPair =>
          ((Pre.pc = Prev.pre.pc + 4) # (pc = Pre.pc + 4))

(***************************************************************************)
(* C25.  Wait for key: a step that executes Fx0A while no key is pressed   *)
(* reports a waiting-for-key status, distinct from normal completion and   *)
(* from a fatal error, and no later instruction executes until a key is    *)
(* reported (the machine has no entry point that reports one): the step    *)
(* after it fetches the same Fx0A again.                                   *)
(***************************************************************************)
C25_WaitBlocks ==
    /\ Ran("WaitForPress") => result \notin ({"Ok", "Err"} \cup Panics)
    /\ (PrevExecuted /\ PrevOp.tag = "WaitForPress" /\ Fetched) =>
          (Pre.pc = Prev.pre.pc /\ last.word = Prev.word)

(***************************************************************************)
(* C26.  Pixel values are single bits: in every state reached from         *)
(* construction by loads and steps each of the 64 * 32 framebuffer cells   *)
(* holds 0 or 1, so get_pixel returns 0 or 1 for every x in 0..63 and y in *)
(* 0..31.                                                                  *)
(***************************************************************************)
C26_PixelsAreBits ==
    /\ \A p \in DOMAIN screen : screen[p] \in {0, 1}
    /\ \A px \in 0 .. SCREEN_WIDTH - 1, py \in 0 .. SCREEN_HEIGHT - 1 :
          /\ get_pixel(Self, px, py).result = "Ok"
          /\ get_pixel(Self, px, py).value \in {0, 1}

\* D015, 6003, D015: the second glyph is drawn over the first, three pixels
\* to the right; it turned pixels off and others on
C26_Witness ==
    /\ Ran("DisplaySprite") /\ result = "Ok"
    /\ Len(hist) = 5
    /\ Pre.reg[0] = 3
    /\ \E p \in DOMAIN screen : Pre.screen[p] = 1 /\ screen[p] = 0
    /\ \E p \in DOMAIN screen : Pre.screen[p] = 0 /\ screen[p] = 1
    /\ reg[VF] = 1

=============================================================================
